---- MODULE Spec2Model ----
(***************************************************************************)
(* slice-diff-patch (src/src/lib.rs): the Change list, the coalescing      *)
(* primitives insert() and remove(), the three adapters diff_changes(),    *)
(* lcs_changes() and wu_changes(), and patch().                            *)
(*                                                                         *)
(* Rust indices are 0-based, TLA+ sequences 1-based: the element at Rust   *)
(* index n of a Vec v is v[n + 1] here.  Every position stored in a Change *)
(* or in an alignment record is the Rust (0-based) number.                 *)
(***************************************************************************)
EXTENDS Integers, Sequences, FiniteSets, TLC

VARIABLES a, b, backend, d, changes, naive, out, ref, cur, pc

vars == <<a, b, backend, d, changes, naive, out, ref, cur, pc>>

(***************************************************************************)
(* Bounds of the model.                                                    *)
(***************************************************************************)
\* longest source and target handed to an adapter
MaxLen == 3
\* longest source handed to patch with a free change list
MaxSrc == 2
\* largest position passed to insert() / remove() / held by a free Change
MaxPos == 3
\* number of calls of insert() / remove() on one change list
MaxCalls == 3
\* longest working buffer of patch under a free change list
MaxBuf == 3

\* the element type T
Values == {1, 2}

SeqsUpTo(n) == UNION {[1..k -> Values] : k \in 0..n}

(***************************************************************************)
(* enum Change<T> { Remove(usize), Insert((usize, T)), Update((usize, T)) }*)
(***************************************************************************)
Remove(n) == [op |-> "Remove", n |-> n]

Insert(n, item) == [op |-> "Insert", n |-> n, item |-> item]

Update(n, item) == [op |-> "Update", n |-> n, item |-> item]

\* Vec::pop leaves the list without its last entry
Front(s) == SubSeq(s, 1, Len(s) - 1)

Last(s) == s[Len(s)]

(***************************************************************************)
(* pub fn insert(n, item, changes): lines 293-304.                         *)
(***************************************************************************)
insert_no_upgrade(n, item, ch) == Append(ch, Insert(n, item))

insert_any_remove(n, item, ch) ==
    IF Len(ch) > 0 /\ Last(ch).op = "Remove"
    THEN Append(Front(ch), Update(n, item))
    ELSE Append(ch, Insert(n, item))

insert(n, item, ch) ==
    IF Len(ch) > 0 /\ Last(ch).op = "Remove" /\ n = Last(ch).n
    THEN Append(Front(ch), Update(n, item))
    ELSE Append(ch, Insert(n, item))

(***************************************************************************)
(* pub fn remove(n, changes): lines 309-320.                               *)
(***************************************************************************)
remove_same_position(n, ch) ==
    IF Len(ch) > 0 /\ Last(ch).op = "Insert" /\ n = Last(ch).n
    THEN Append(Front(ch), Update(Last(ch).n, Last(ch).item))
    ELSE Append(ch, Remove(n))

remove_no_upgrade(n, ch) == Append(ch, Remove(n))

remove_update_at_n(n, ch) ==
    IF Len(ch) > 0 /\ Last(ch).op = "Insert" /\ n = Last(ch).n + 1
    THEN Append(Front(ch), Update(n, Last(ch).item))
    ELSE Append(ch, Remove(n))

remove(n, ch) ==
    IF Len(ch) > 0 /\ Last(ch).op = "Insert" /\ n = Last(ch).n + 1
    THEN Append(Front(ch), Update(Last(ch).n, Last(ch).item))
    ELSE Append(ch, Remove(n))

(***************************************************************************)
(* patch(): the working buffer is a Vec, or the call has panicked.         *)
(***************************************************************************)
Ok(v) == [panic |-> FALSE, v |-> v]

Panic == [panic |-> TRUE, v |-> <<>>]

\* Vec::remove(n): panics when n >= len
VecRemove_pops_last(v, n) ==
    IF n >= Len(v) THEN Panic
    ELSE Ok(SubSeq(v, 1, Len(v) - 1))

VecRemove(v, n) ==
    IF n >= Len(v) THEN Panic
    ELSE Ok(SubSeq(v, 1, n) \o SubSeq(v, n + 2, Len(v)))

\* Vec::insert(n, item): panics when n > len
VecInsert(v, n, item) ==
    IF n > Len(v) THEN Panic
    ELSE Ok(SubSeq(v, 1, n) \o <<item>> \o SubSeq(v, n + 1, Len(v)))

patch_step_update_inserts_first(w, c) ==
    IF w.panic THEN Panic
    ELSE CASE c.op = "Remove" -> VecRemove(w.v, c.n)
           [] c.op = "Insert" -> VecInsert(w.v, c.n, c.item)
           [] c.op = "Update" ->
                LET r == VecInsert(w.v, c.n, c.item)
                IN  IF r.panic THEN Panic ELSE VecRemove(r.v, c.n)

\* one iteration of the loop of patch (lines 445-456) on the buffer w
patch_step(w, c) ==
    IF w.panic THEN Panic
    ELSE CASE c.op = "Remove" -> VecRemove(w.v, c.n)
           [] c.op = "Insert" -> VecInsert(w.v, c.n, c.item)
           [] c.op = "Update" ->
                LET r == VecRemove(w.v, c.n)
                IN  IF r.panic THEN Panic ELSE VecInsert(r.v, c.n, c.item)

RECURSIVE patch_loop(_, _, _)
patch_loop(w, ch, k) ==
    IF k > Len(ch) THEN w ELSE patch_loop(patch_step(w, ch[k]), ch, k + 1)

\* pub fn patch(a, changes): lines 442-459
patch(src, ch) == patch_loop(Ok(src), ch, 1)

(***************************************************************************)
(* Raw alignments, the input of the adapters.  An alignment of s to t is a *)
(* walk over both in order; each step is a removal ("L": the next element  *)
(* of s), an addition ("R": the next element of t) or a common step ("C":  *)
(* the next elements of both, which are equal).  Removals and additions    *)
(* inside a gap come in any interleaving.                                  *)
(***************************************************************************)
RECURSIVE Walks(_, _, _, _)
Walks(s, t, i, j) ==
    IF i = Len(s) /\ j = Len(t) THEN {<<>>}
    ELSE (IF i < Len(s)
          THEN {<<"L">> \o w : w \in Walks(s, t, i + 1, j)} ELSE {})
         \cup
         (IF j < Len(t)
          THEN {<<"R">> \o w : w \in Walks(s, t, i, j + 1)} ELSE {})
         \cup
         (IF i < Len(s) /\ j < Len(t) /\ s[i + 1] = t[j + 1]
          THEN {<<"C">> \o w : w \in Walks(s, t, i + 1, j + 1)} ELSE {})

\* number of steps of w before step k (1-based) whose kind is in kinds
Before(w, k, kinds) == Cardinality({p \in 1..(k - 1) : w[p] \in kinds})

\* 0-based index in s of the element step k of w consumes
OldIndex(w, k) == Before(w, k, {"L", "C"})

\* 0-based index in t of the element step k of w produces
NewIndex(w, k) == Before(w, k, {"R", "C"})

\* diff::Result<&T>: Left(l) | Both(l, r) | Right(r), one record per step
DiffRecords(w, s, t) ==
    [k \in 1..Len(w) |->
        CASE w[k] = "L" -> [tag |-> "Left", l |-> s[OldIndex(w, k) + 1]]
          [] w[k] = "R" -> [tag |-> "Right", r |-> t[NewIndex(w, k) + 1]]
          [] w[k] = "C" -> [tag |-> "Both", l |-> s[OldIndex(w, k) + 1],
                                            r |-> t[NewIndex(w, k) + 1]]]

\* lcs_diff::DiffResult<T>: Removed | Added | Common of a DiffElement
\* {old_index, new_index, data}; an index that is None is left out
LcsRecords(w, s, t) ==
    [k \in 1..Len(w) |->
        CASE w[k] = "L" -> [tag |-> "Removed", old_index |-> OldIndex(w, k),
                            data |-> s[OldIndex(w, k) + 1]]
          [] w[k] = "R" -> [tag |-> "Added", new_index |-> NewIndex(w, k),
                            data |-> t[NewIndex(w, k) + 1]]
          [] w[k] = "C" -> [tag |-> "Common", old_index |-> OldIndex(w, k),
                            new_index |-> NewIndex(w, k),
                            data |-> s[OldIndex(w, k) + 1]]]

\* wu_diff::DiffResult: as lcs_diff's, without the data
WuRecords(w, s, t) ==
    [k \in 1..Len(w) |->
        CASE w[k] = "L" -> [tag |-> "Removed", old_index |-> OldIndex(w, k)]
          [] w[k] = "R" -> [tag |-> "Added", new_index |-> NewIndex(w, k)]
          [] w[k] = "C" -> [tag |-> "Common", old_index |-> OldIndex(w, k),
                            new_index |-> NewIndex(w, k)]]

Backends == {"diff", "lcs", "wu"}

Records(be, w, s, t) ==
    CASE be = "diff" -> DiffRecords(w, s, t)
      [] be = "lcs" -> LcsRecords(w, s, t)
      [] be = "wu" -> WuRecords(w, s, t)

\* the kind of a raw record, whatever the backend
Kind(r) ==
    CASE r.tag \in {"Left", "Removed"} -> "L"
      [] r.tag \in {"Right", "Added"} -> "R"
      [] OTHER -> "C"

Kinds(recs) == [k \in 1..Len(recs) |-> Kind(recs[k])]

(***************************************************************************)
(* pub fn diff_changes(d): lines 342-359.  i is the enumerate() index.     *)
(***************************************************************************)
RECURSIVE diff_loop_both_inserts(_, _, _, _)
diff_loop_both_inserts(recs, i, removed, ch) ==
    IF i = Len(recs) THEN ch
    ELSE LET j == recs[i + 1]
             n == i - removed
         IN  CASE j.tag = "Left" ->
                    diff_loop_both_inserts(recs, i + 1, removed + 1, remove(n, ch))
               [] j.tag = "Right" ->
                    diff_loop_both_inserts(recs, i + 1, removed, insert(n, j.r, ch))
               [] OTHER ->
                    diff_loop_both_inserts(recs, i + 1, removed, insert(n, j.r, ch))

RECURSIVE diff_loop(_, _, _, _)
diff_loop(recs, i, removed, ch) ==
    IF i = Len(recs) THEN ch
    ELSE LET j == recs[i + 1]
             n == i - removed
         IN  CASE j.tag = "Left" ->
                    diff_loop(recs, i + 1, removed + 1, remove(n, ch))
               [] j.tag = "Right" ->
                    diff_loop(recs, i + 1, removed, insert(n, j.r, ch))
               [] OTHER ->
                    diff_loop(recs, i + 1, removed, ch)

diff_changes(recs) == diff_loop(recs, 0, 0, <<>>)

(***************************************************************************)
(* pub fn lcs_changes(d): lines 374-394.  k is the next record (1-based).  *)
(* old_index + added - removed is usize arithmetic; on a valid alignment   *)
(* old_index >= removed, so it never goes below zero.                      *)
(***************************************************************************)
RECURSIVE lcs_loop_forgets_added(_, _, _, _, _)
lcs_loop_forgets_added(recs, k, removed, added, ch) ==
    IF k > Len(recs) THEN ch
    ELSE LET i == recs[k]
         IN  CASE i.tag = "Removed" ->
                    lcs_loop_forgets_added(recs, k + 1, removed + 1, added,
                             remove(i.old_index - removed, ch))
               [] i.tag = "Added" ->
                    lcs_loop_forgets_added(recs, k + 1, removed, added + 1,
                             insert(i.new_index, i.data, ch))
               [] OTHER ->
                    lcs_loop_forgets_added(recs, k + 1, removed, added, ch)

RECURSIVE lcs_loop(_, _, _, _, _)
lcs_loop(recs, k, removed, added, ch) ==
    IF k > Len(recs) THEN ch
    ELSE LET i == recs[k]
         IN  CASE i.tag = "Removed" ->
                    lcs_loop(recs, k + 1, removed + 1, added,
                             remove(i.old_index + added - removed, ch))
               [] i.tag = "Added" ->
                    lcs_loop(recs, k + 1, removed, added + 1,
                             insert(i.new_index, i.data, ch))
               [] OTHER ->
                    lcs_loop(recs, k + 1, removed, added, ch)

lcs_changes(recs) == lcs_loop(recs, 1, 0, 0, <<>>)

(***************************************************************************)
(* pub fn wu_changes(d, b): lines 409-432.  The payload of an addition is  *)
(* b[n], with n the record's new_index.                                    *)
(***************************************************************************)
RECURSIVE wu_loop_payload_by_count(_, _, _, _, _, _)
wu_loop_payload_by_count(recs, t, k, removed, added, ch) ==
    IF k > Len(recs) THEN ch
    ELSE LET i == recs[k]
         IN  CASE i.tag = "Removed" ->
                    wu_loop_payload_by_count(recs, t, k + 1, removed + 1, added,
                            remove(i.old_index + added - removed, ch))
               [] i.tag = "Added" ->
                    wu_loop_payload_by_count(recs, t, k + 1, removed, added + 1,
                            insert(i.new_index, t[added + 1], ch))
               [] OTHER ->
                    wu_loop_payload_by_count(recs, t, k + 1, removed, added, ch)

RECURSIVE wu_loop(_, _, _, _, _, _)
wu_loop(recs, t, k, removed, added, ch) ==
    IF k > Len(recs) THEN ch
    ELSE LET i == recs[k]
         IN  CASE i.tag = "Removed" ->
                    wu_loop(recs, t, k + 1, removed + 1, added,
                            remove(i.old_index + added - removed, ch))
               [] i.tag = "Added" ->
                    wu_loop(recs, t, k + 1, removed, added + 1,
                            insert(i.new_index, t[i.new_index + 1], ch))
               [] OTHER ->
                    wu_loop(recs, t, k + 1, removed, added, ch)

wu_changes(recs, t) == wu_loop(recs, t, 1, 0, 0, <<>>)

(***************************************************************************)
(* Actions.                                                                *)
(***************************************************************************)
NoChange == [op |-> "None"]

\* diff_diff: diff_changes on the alignment diff::slice returned
DiffChanges ==
    /\ pc = "start" /\ backend = "diff"
    /\ changes' = diff_changes(d)
    /\ pc' = "diffed"
    /\ UNCHANGED <<a, b, backend, d, naive, out, ref, cur>>

\* lcs_diff: lcs_changes on the alignment lcs_diff::diff returned
LcsChanges ==
    /\ pc = "start" /\ backend = "lcs"
    /\ changes' = lcs_changes(d)
    /\ pc' = "diffed"
    /\ UNCHANGED <<a, b, backend, d, naive, out, ref, cur>>

\* wu_diff: wu_changes on the alignment wu_diff::diff returned, and b
WuChanges ==
    /\ pc = "start" /\ backend = "wu"
    /\ changes' = wu_changes(d, b)
    /\ pc' = "diffed"
    /\ UNCHANGED <<a, b, backend, d, naive, out, ref, cur>>

\* patch(&a, &changes), as test_states and the crate's example call it
Patch ==
    /\ pc = "diffed"
    /\ out' = patch(a, changes)
    /\ pc' = "done"
    /\ UNCHANGED <<a, b, backend, d, changes, naive, ref, cur>>

\* a source, a target, a backend and any valid alignment in its format
Init ==
    /\ a \in SeqsUpTo(MaxLen)
    /\ b \in SeqsUpTo(MaxLen)
    /\ backend \in Backends
    /\ d \in {Records(backend, w, a, b) : w \in Walks(a, b, 0, 0)}
    /\ changes = <<>>
    /\ naive = <<>>
    /\ out = Ok(<<>>)
    /\ ref = Ok(<<>>)
    /\ cur = NoChange
    /\ pc = "start"

Next == DiffChanges \/ LcsChanges \/ WuChanges \/ Patch

Spec == Init /\ [][Next]_vars

\* C1: on every valid alignment, for each backend, patch(source, changes)
\* completes without a bounds failure and returns exactly the target.
C1_RoundTrip == pc = "done" => out = Ok(b)

C1_Witness ==
    /\ pc = "done" /\ backend = "lcs" /\ out = Ok(b)
    /\ Len(changes) >= 2
    /\ \E k \in 1..Len(changes) : changes[k].op = "Update"

\* the raw alignment reports position p (0-based) as one removal plus one
\* addition, in either order, and every other position as common
SingleReplacementAt(p) ==
    /\ Len(a) = Len(b)
    /\ p < Len(a)
    /\ \A i \in 1..Len(a) : (a[i] # b[i]) <=> (i = p + 1)
    /\ Len(d) = Len(a) + 1
    /\ \A k \in 1..Len(d) :
          Kind(d[k]) = "C" <=> k \notin {p + 1, p + 2}
    /\ {Kind(d[p + 1]), Kind(d[p + 2])} = {"L", "R"}

\* C3: when source and target differ in exactly position p and the
\* alignment reports p as one removal plus one addition (either order) and
\* the rest as common, each backend returns exactly [Update(p, target[p])].
C3_SingleUpdate ==
    \A p \in 0..(MaxLen - 1) :
        (pc # "start" /\ SingleReplacementAt(p))
            => changes = <<Update(p, b[p + 1])>>

C3_Witness ==
    /\ pc = "diffed" /\ backend = "lcs"
    /\ SingleReplacementAt(1)
    /\ Kind(d[2]) = "R" /\ Kind(d[3]) = "L"
    /\ changes = <<Update(1, b[2])>>

AllCommon == \A k \in 1..Len(d) : Kind(d[k]) = "C"

\* C5: an alignment of s to s made only of common records gives the empty
\* change list for every backend, and patch(s, []) returns s.
C5_EmptyDiff ==
    (pc # "start" /\ AllCommon) =>
        /\ a = b
        /\ changes = <<>>
        /\ pc = "done" => out = Ok(a)

C5_Witness ==
    /\ pc = "done" /\ backend = "diff"
    /\ AllCommon /\ Len(a) >= 2
    /\ changes = <<>> /\ out = Ok(a)

\* C10: on a valid alignment every Insert(n, x) and Update(n, x) of the
\* returned list has n < Len(target) and x = target[n], and the positions
\* of the list's entries are non-decreasing.
C10_PayloadAtTargetIndex ==
    pc # "start" =>
        /\ \A k \in 1..Len(changes) :
              changes[k].op \in {"Insert", "Update"} =>
                  /\ changes[k].n < Len(b)
                  /\ changes[k].item = b[changes[k].n + 1]
        /\ \A k \in 1..(Len(changes) - 1) : changes[k].n <= changes[k + 1].n

C10_Witness ==
    /\ pc = "diffed" /\ backend = "wu"
    /\ Kinds(d) = <<"R", "L", "L">>
    /\ changes = <<Update(0, b[1]), Remove(1)>>

(***************************************************************************)
(* The example of the crate's documentation (lines 9-47).                  *)
(***************************************************************************)
DocA == <<"one", "TWO", "three", "four">>

DocB == <<"zero", "one", "two", "four">>

InitDoc ==
    /\ a = DocA
    /\ b = DocB
    /\ backend \in Backends
    /\ d \in {Records(backend, w, a, b) : w \in Walks(a, b, 0, 0)}
    /\ changes = <<>>
    /\ naive = <<>>
    /\ out = Ok(<<>>)
    /\ ref = Ok(<<>>)
    /\ cur = NoChange
    /\ pc = "start"

SpecDoc == InitDoc /\ [][Next]_vars

\* the alignment that lists the two removals before the addition of "two"
DocRemovalsFirst == <<"R", "C", "L", "L", "R", "C">>

\* the alignment that lists the addition of "two" before the two removals
DocAdditionFirst == <<"R", "C", "R", "L", "L", "C">>

\* C4: on the documented example the edit-script and Wu backends return
\* [Insert(0,"zero"), Remove(2), Update(2,"two")], the LCS backend returns
\* [Insert(0,"zero"), Update(2,"two"), Remove(3)], and patch gives the target.
C4_DocExample ==
    /\ (pc # "start" /\ backend \in {"diff", "wu"}
            /\ Kinds(d) = DocRemovalsFirst)
         => /\ changes = <<Insert(0, "zero"), Remove(2), Update(2, "two")>>
            /\ pc = "done" => out = Ok(DocB)
    /\ (pc # "start" /\ backend = "lcs" /\ Kinds(d) = DocAdditionFirst)
         => /\ changes = <<Insert(0, "zero"), Update(2, "two"), Remove(3)>>
            /\ pc = "done" => out = Ok(DocB)

C4_Witness ==
    /\ pc = "done" /\ backend = "lcs" /\ Kinds(d) = DocAdditionFirst
    /\ changes = <<Insert(0, "zero"), Update(2, "two"), Remove(3)>>
    /\ out = Ok(DocB)

(***************************************************************************)
(* The coalescing primitives under any stream of calls, as a custom        *)
(* `changes` function may make them.  naive records each call as the plain *)
(* Insert or Remove it asks for; ref is the replay of naive.               *)
(***************************************************************************)
CallInsert(n, item) ==
    /\ pc = "build" /\ Len(naive) < MaxCalls
    /\ changes' = insert(n, item, changes)
    /\ naive' = Append(naive, Insert(n, item))
    /\ UNCHANGED <<a, b, backend, d, out, ref, cur, pc>>

CallRemove(n) ==
    /\ pc = "build" /\ Len(naive) < MaxCalls
    /\ changes' = remove(n, changes)
    /\ naive' = Append(naive, Remove(n))
    /\ UNCHANGED <<a, b, backend, d, out, ref, cur, pc>>

\* patch of a source with the list built so far, and with the naive list
Replay(s) ==
    /\ pc = "build"
    /\ a' = s
    /\ out' = patch(s, changes)
    /\ ref' = patch(s, naive)
    /\ pc' = "replayed"
    /\ UNCHANGED <<b, backend, d, changes, naive, cur>>

InitPrim ==
    /\ a = <<>>
    /\ b = <<>>
    /\ backend = "custom"
    /\ d = <<>>
    /\ changes = <<>>
    /\ naive = <<>>
    /\ out = Ok(<<>>)
    /\ ref = Ok(<<>>)
    /\ cur = NoChange
    /\ pc = "build"

NextPrim ==
    \/ \E n \in 0..MaxPos, item \in Values : CallInsert(n, item)
    \/ \E n \in 0..MaxPos : CallRemove(n)
    \/ \E s \in SeqsUpTo(MaxSrc) : Replay(s)

SpecPrim == InitPrim /\ [][NextPrim]_vars

\* a step that is one call of insert() or remove()
IsCall == pc = "build" /\ pc' = "build" /\ naive' # naive

\* C2 as claimed: whenever the naive stream has Remove(n) immediately
\* followed by Insert(n, x), or Insert(n, x) immediately followed by
\* Remove(n + 1), the list holds Update(n, x) in place of the pair, also when
\* the first operation of the pair was consumed by an earlier fusion.
C2_FusionOfEveryNaivePair ==
    [][(IsCall /\ Len(naive) >= 1) =>
          LET p == Last(naive)
              c == Last(naive')
          IN  /\ (p.op = "Remove" /\ c.op = "Insert" /\ c.n = p.n)
                    => Last(changes') = Update(c.n, c.item)
              /\ (p.op = "Insert" /\ c.op = "Remove" /\ c.n = p.n + 1)
                    => Last(changes') = Update(p.n, p.item)]_vars

\* C2 amended: the pair is fused into Update(n, x), which takes the place of
\* the pair's first operation, whenever that first operation is still the
\* last entry of the list (it was not itself consumed by an earlier fusion).
C2_FusionOfPendingPair ==
    [][(IsCall /\ Len(naive) >= 1 /\ Len(changes) >= 1
            /\ Last(changes) = Last(naive)) =>
          LET p == Last(naive)
              c == Last(naive')
          IN  /\ (p.op = "Remove" /\ c.op = "Insert" /\ c.n = p.n)
                    => changes' = Append(Front(changes), Update(c.n, c.item))
              /\ (p.op = "Insert" /\ c.op = "Remove" /\ c.n = p.n + 1)
                    => changes' = Append(Front(changes), Update(p.n, p.item))]_vars

C2_Witness ==
    /\ pc = "build" /\ Len(naive) = 3 /\ Len(changes) = 2
    /\ naive[2].op = "Insert" /\ naive[3] = Remove(naive[2].n + 1)
    /\ changes[1] = naive[1]
    /\ changes[2] = Update(naive[2].n, naive[2].item)

\* C7: a call either replaces only the last entry by an Update or appends
\* one entry; earlier entries never change; insert fuses only with a last
\* Remove(p), p = position, remove only with a last Insert(p, item),
\* position = p + 1; a last Update is never fused.
C7_SingleLookback ==
    [][IsCall =>
          LET L == Len(changes)
              c == Last(naive')
              fused == /\ L >= 1
                       /\ Len(changes') = L
                       /\ Front(changes') = Front(changes)
                       /\ changes'[L].op = "Update"
              appended == /\ Len(changes') = L + 1
                          /\ Front(changes') = changes
                          /\ changes'[L + 1] = c
          IN  /\ fused \/ appended
              /\ fused =>
                    \/ c.op = "Insert" /\ changes[L] = Remove(c.n)
                    \/ /\ c.op = "Remove" /\ changes[L].op = "Insert"
                       /\ c.n = changes[L].n + 1
              /\ (L >= 1 /\ changes[L].op = "Update") => appended]_vars

C7_Witness ==
    /\ pc = "build" /\ Len(naive) = 3
    /\ naive[1].op = "Remove" /\ naive[2].op = "Insert"
    /\ naive[3] = Remove(naive[2].n + 1)
    /\ changes = <<Update(naive[2].n, naive[2].item), naive[3]>>

\* C8: replaying the fused list gives the outcome of replaying the naive
\* list: the same sequence, or a bounds failure when the naive replay fails.
C8_FusionPreservesReplay == pc = "replayed" => out = ref

C8_Witness ==
    /\ pc = "replayed" /\ Len(changes) < Len(naive)
    /\ ~out.panic /\ out.v # a /\ out = ref

C8_WitnessPanic ==
    /\ pc = "replayed" /\ Len(changes) < Len(naive)
    /\ out.panic /\ ref.panic /\ Len(a) > 0

FusiblePairAt(ch, k) ==
    \/ /\ ch[k].op = "Remove" /\ ch[k + 1].op = "Insert"
       /\ ch[k + 1].n = ch[k].n
    \/ /\ ch[k].op = "Insert" /\ ch[k + 1].op = "Remove"
       /\ ch[k + 1].n = ch[k].n + 1

\* C9: after any calls of insert() and remove() from the empty list, no two
\* adjacent entries are Remove(n), Insert(n, x) or Insert(n, x), Remove(n+1).
C9_NoFusiblePair ==
    \A k \in 1..(Len(changes) - 1) : ~FusiblePairAt(changes, k)

C9_Witness ==
    /\ pc = "build" /\ Len(changes) = 3 /\ Len(naive) = 3
    /\ changes[1].op = "Remove" /\ changes[2].op = "Insert"
    /\ changes[3].op = "Remove"

(***************************************************************************)
(* patch under a free change list: the loop of patch, one Change a step.   *)
(* cur is the Change the last iteration applied, out the working buffer.   *)
(***************************************************************************)
FreeChanges ==
    {Remove(n) : n \in 0..MaxPos}
        \cup {Insert(n, x) : n \in 0..MaxPos, x \in Values}
        \cup {Update(n, x) : n \in 0..MaxPos, x \in Values}

PatchStep(c) ==
    /\ pc = "patch" /\ ~out.panic
    /\ c.op = "Insert" => Len(out.v) < MaxBuf
    /\ out' = patch_step(out, c)
    /\ cur' = c
    /\ UNCHANGED <<a, b, backend, d, changes, naive, ref, pc>>

InitPatch ==
    /\ a \in SeqsUpTo(MaxSrc)
    /\ b = <<>>
    /\ backend = "custom"
    /\ d = <<>>
    /\ changes = <<>>
    /\ naive = <<>>
    /\ out = Ok(a)
    /\ ref = Ok(<<>>)
    /\ cur = NoChange
    /\ pc = "patch"

NextPatch == \E c \in FreeChanges : PatchStep(c)

SpecPatch == InitPatch /\ [][NextPatch]_vars

\* C6: with L the length of the buffer, Remove(n) and Update(n, item) fail
\* exactly when n >= L, Insert(n, item) exactly when n > L; on success Remove
\* shortens the buffer by one, Insert puts item at n and shifts the rest
\* right, Update puts item at n and leaves the rest; the source is untouched.
C6_PatchBounds ==
    [][(pc = "patch" /\ ~out.panic) =>
          LET v == out.v
              L == Len(v)
              c == cur'
              w == out'.v
          IN  /\ a' = a
              /\ out'.panic => w = <<>>
              /\ c.op = "Remove" =>
                    /\ out'.panic <=> c.n >= L
                    /\ ~out'.panic =>
                          /\ Len(w) = L - 1
                          /\ \A i \in 1..(L - 1) :
                                w[i] = IF i <= c.n THEN v[i] ELSE v[i + 1]
              /\ c.op = "Insert" =>
                    /\ out'.panic <=> c.n > L
                    /\ ~out'.panic =>
                          /\ Len(w) = L + 1
                          /\ w[c.n + 1] = c.item
                          /\ \A i \in 1..L :
                                IF i <= c.n THEN w[i] = v[i]
                                            ELSE w[i + 1] = v[i]
              /\ c.op = "Update" =>
                    /\ out'.panic <=> c.n >= L
                    /\ ~out'.panic =>
                          /\ Len(w) = L
                          /\ w[c.n + 1] = c.item
                          /\ \A i \in 1..L : i # c.n + 1 => w[i] = v[i]]_vars

C6_Witness ==
    /\ pc = "patch" /\ out.panic
    /\ cur.op = "Insert" /\ Len(a) = 1 /\ cur.n = 2

====
